---- MODULE Spec2Model ----
(***************************************************************************)
(* Model of tabs.js: the Tabs class (src/tabs.js:342-629) and the older    *)
(* prototype implementation of the same widget (src/tabs.js:19-320).       *)
(*                                                                         *)
(* A JavaScript string is a sequence of symbols.  A symbol is either one   *)
(* of the two characters the code splits on ("#" and the fragment          *)
(* separator ":") or a non-empty run of other characters, so "#x:y" is     *)
(* <<"#", "x", ":", "y">>.  split and join work on these sequences.        *)
(***************************************************************************)
EXTENDS Integers, Sequences, FiniteSets, TLC

\* ------------------------------------------------------------------ bounds
MaxFrags == 2       \* longest decoded URL fragment list explored
MaxListeners == 2   \* most click listeners explored on one button
MaxHist == 3        \* most session history entries explored

\* ------------------------------------------------------- JavaScript values
Null  == <<"<null>">>        \* the value null (of this.curr)
Undef == "<undefined>"       \* the value undefined (a missing property)
NoNav == "<no-nav>"          \* the value null (of this.tnav)
Hash  == "#"

\* Names every object inherits from Object.prototype: this.tabs is created
\* as {} so this.tabs["toString"] is a (truthy) function, not undefined.
ProtoKeys == {<<"toString">>}

\* The name of the accessor every object inherits for its prototype:
\* this.tabs["__proto__"] = entry calls the setter, which makes entry the
\* prototype of this.tabs and creates no property of this.tabs, and
\* this.tabs["__proto__"] reads that prototype back.
SetterKey == <<"__proto__">>

\* The property names of an entry, inherited by this.tabs (enumerably)
\* once an entry is its prototype.
EntryFields == {<<"btn">>, <<"tab">>, <<"evt">>}

\* ---------------------------------------------------------- configuration
Inst == {1, 2}
Impls == {"class", "legacy"}

attr == "data-tabs"
\* The values of the name option explored; "" stands for null (the default)
\* and for the empty string, which the selector treats alike.
NameOpts == {"", "one", "two"}
frag_sep(i) == ":"
btn_active(i) == "active"
tab_class(i) == "tab"
tab_active(i) == "active"
tab_hidden(i) == "hidden"
\* The prototype implementation has no nav_class and no btn_class option.
nav_class(im, i) == IF im = "class" THEN "tab-nav" ELSE ""
btn_class(im, i) == IF im = "class" THEN "tab-button" ELSE ""

\* ------------------------------------------------------------ the document
\* The pages explored: "generic" marks both containers with a bare
\* attribute (<ul data-tabs>), "named" gives them the values "one" and
\* "two", "broken" is the generic page whose first container holds one
\* button without a link, one linking to "#" and one linking to an id no
\* element has, "mixed" is a page with a panel whose id is "__proto__",
\* linked to from both containers, next to a button without a link and a
\* link to panel "a" in the first container and a dead link in the second.
Pages == {"generic", "named", "broken", "mixed"}
VARIABLE page
\* Navigation containers in document order, with their marker value.
Navs == <<"n1", "n2">>
NavValue == [n \in {"n1", "n2"} |->
               IF page = "named" THEN (IF n = "n1" THEN "one" ELSE "two")
               ELSE ""]
\* Children of each container (the <li> elements of the README markup).
Children == [n \in {"n1", "n2"} |->
               IF n = "n1" THEN <<"b1", "b2", "b3">> ELSE <<"b4", "b5">>]
Buttons == {"b1", "b2", "b3", "b4", "b5"}
\* href attribute of the first <a> of each button; <<>> for a button
\* without an <a> (find_href returns null).
HrefAttr == [b \in Buttons |->
               CASE b = "b1" -> IF page \in {"broken", "mixed"} THEN <<>>
                                ELSE <<"#", "a">>
                 [] b = "b2" -> IF page = "broken" THEN <<"#">>
                                ELSE IF page = "mixed" THEN <<"#", "__proto__">>
                                ELSE <<"#", "b">>
                 [] b = "b3" -> IF page = "broken" THEN <<"#", "zz">>
                                ELSE IF page = "mixed" THEN <<"#", "a">>
                                ELSE <<"#", "x", ":", "y">>
                 [] b = "b4" -> IF page = "mixed" THEN <<"#", "zz">>
                                ELSE <<"#", "c">>
                 [] b = "b5" -> IF page = "mixed" THEN <<"#", "__proto__">>
                                ELSE <<"#", "d">>]
\* Elements with an id attribute (the panels).
Panels == {"pa", "pb", "pxy", "pc", "pd"}
ElemId == [p \in Panels |->
             CASE p = "pa"  -> <<"a">>
               [] p = "pb"  -> <<"b">>
               [] p = "pxy" -> <<"x", ":", "y">>
               [] p = "pc"  -> <<"c">>
               [] p = "pd"  -> IF page = "mixed" THEN <<"__proto__">>
                               ELSE <<"d">>]
Elements == {"n1", "n2"} \cup Buttons \cup Panels

getElementById(id) ==
  IF \E p \in Panels : ElemId[p] = id
    THEN CHOOSE p \in Panels : ElemId[p] = id
    ELSE Undef

BaseURL == <<"http://host/page">>

\* --------------------------------------------------------- string helpers
RECURSIVE Split(_, _)
\* String.prototype.split(sep): "".split(sep) is [""].
Split(str, sep) ==
  IF \A n \in 1..Len(str) : str[n] # sep
    THEN <<str>>
    ELSE LET n == CHOOSE n \in 1..Len(str) :
                    str[n] = sep /\ \A m \in 1..(n - 1) : str[m] # sep
         IN  <<SubSeq(str, 1, n - 1)>> \o Split(SubSeq(str, n + 1, Len(str)), sep)

RECURSIVE Join(_, _)
\* Array.prototype.join(sep)
Join(list, sep) ==
  IF Len(list) = 0 THEN <<>>
  ELSE IF Len(list) = 1 THEN list[1]
  ELSE list[1] \o <<sep>> \o Join(Tail(list), sep)

\* Array.prototype.indexOf, 1-based; 0 stands for JavaScript's -1.
IndexOf(list, x) ==
  IF \E n \in 1..Len(list) : list[n] = x
    THEN CHOOSE n \in 1..Len(list) :
           list[n] = x /\ \A m \in 1..(n - 1) : list[m] # x
    ELSE 0

\* frag(str): the text between the first and the second "#", or "".
frag(str) ==
  LET u == Split(str, Hash) IN IF Len(u) > 1 THEN u[2] ELSE <<>>

\* frags(str): the fragment split on the separator; "" gives [].
frags(i, str) == IF str # <<>> THEN Split(str, frag_sep(i)) ELSE <<>>

\* ------------------------------------------------------------------ state
VARIABLES
  impl,     \* which implementation the page loaded: "class" or "legacy"
  url,      \* document.URL
  claimed,  \* the containers carrying the attribute attr + "-set"
  cls,      \* classList of every element
  lst,      \* click listeners of every button, in registration order;
            \* a listener is named by the instance whose click it is bound to
  tnav,     \* this.tnav of every instance
  tabs,     \* this.tabs of every instance: id -> [btn, tab]
  curr,     \* this.curr of every instance
  name,     \* this.name of every instance
  set_frags, \* this.set_frags of every instance
  hlen,     \* history.length: the number of session history entries
  slot      \* history: for every instance, the URL list position of its
            \* first write since its last kill() (0 before that write)

vars == <<impl, page, url, claimed, cls, lst, tnav, tabs, curr, name,
          set_frags, hlen, slot>>

\* The mutable world the methods work on, as one record.
World ==
  [url |-> url, claimed |-> claimed, cls |-> cls, lst |-> lst,
   tnav |-> tnav, tabs |-> tabs, curr |-> curr, name |-> name,
   set_frags |-> set_frags, hlen |-> hlen]

\* ---------------------------------------------------- property look-ups
\* this.tabs is modelled as the function from its own keys and, once an
\* entry was assigned to "__proto__", from that name to the entries.
\* Object.keys(this.tabs): the own keys.
Keys(t) == DOMAIN t \ {SetterKey}

\* this.tabs[id] is truthy: an own entry, the prototype entry, or an
\* inherited property.
Truthy(t, id) ==
  \/ id \in DOMAIN t
  \/ id \in ProtoKeys
  \/ SetterKey \in DOMAIN t /\ id \in EntryFields

\* this.tabs[id] read as an entry: an inherited function or element has no
\* btn or tab.
Entry(t, id) ==
  IF id \in DOMAIN t THEN t[id] ELSE [btn |-> Undef, tab |-> Undef]

\* ------------------------------------------------------- class helpers
\* add_class/rem_class raise a TypeError in the prototype implementation
\* when the element is undefined; the class implementation guards on e.
class_throws(im, e, c) == im = "legacy" /\ c # "" /\ e = Undef

add_class(c0, e, c) ==
  IF e = Undef \/ c = "" THEN c0 ELSE [c0 EXCEPT ![e] = @ \cup {c}]

rem_class(c0, e, c) ==
  IF e = Undef \/ c = "" THEN c0 ELSE [c0 EXCEPT ![e] = @ \ {c}]

\* ----------------------------------------------------------- show / hide
\* With an undefined entry the prototype implementation throws on the
\* first statement, before any class has changed.
show_throws(im, w, i, id) ==
  class_throws(im, Entry(w.tabs[i], id).btn, btn_active(i))

\* Mutant of show: the hidden class is left on the panel shown.
show_keeps_hidden(w, i, id) ==
  LET t  == Entry(w.tabs[i], id)
      c1 == add_class(w.cls, t.btn, btn_active(i))
      c2 == add_class(c1, t.tab, tab_active(i))
  IN  [w EXCEPT !.cls = c2]

show(w, i, id) ==
  LET t  == Entry(w.tabs[i], id)
      c1 == add_class(w.cls, t.btn, btn_active(i))
      c2 == add_class(c1, t.tab, tab_active(i))
      c3 == rem_class(c2, t.tab, tab_hidden(i))
  IN  [w EXCEPT !.cls = c3]

hide(w, i, id) ==
  LET t  == Entry(w.tabs[i], id)
      c1 == rem_class(w.cls, t.btn, btn_active(i))
      c2 == rem_class(c1, t.tab, tab_active(i))
      c3 == add_class(c2, t.tab, tab_hidden(i))
  IN  [w EXCEPT !.cls = c3]

RECURSIVE hide_ids(_, _, _)
hide_ids(w, i, ids) ==
  IF ids = {} THEN w
  ELSE LET id == CHOOSE id \in ids : TRUE
       IN  hide_ids(hide(w, i, id), i, ids \ {id})

\* The inherited names "for (id in this.tabs)" also visits in the class
\* implementation name elements, on which hide changes nothing.
hide_all(w, i) == hide_ids(w, i, Keys(w.tabs[i]))

\* ---------------------------------------------------------- update_frags
\* The list written for a transition of the active id from prev to next.
new_frags(list, prev, next) ==
  LET idx == IndexOf(list, prev)
  IN  IF idx = 0 THEN Append(list, next) ELSE [list EXCEPT ![idx] = next]

\* history.replaceState(undefined, undefined, frag_str): the fragment of
\* the document URL is replaced, the rest of the URL is kept.
replaceState(u, frag_str) == Split(u, Hash)[1] \o frag_str

\* Mutant of replaceState_length: a new history entry is made (pushState).
pushState_length(n) == n + 1

\* history.length after history.replaceState with n entries before: the
\* current entry is replaced, none is added.
replaceState_length(n) == n

\* Mutant of update_frags: the set_frags option is not looked at.
update_frags_always(w, i, next) ==
  LET list     == frags(i, frag(w.url))
      frag_str == <<Hash>> \o Join(new_frags(list, w.curr[i], next), frag_sep(i))
  IN  [w EXCEPT !.url = replaceState(w.url, frag_str),
                !.hlen = replaceState_length(@)]

update_frags(w, i, next) ==
  IF w.set_frags[i] = FALSE THEN w
  ELSE LET list     == frags(i, frag(w.url))
           frag_str == <<Hash>> \o Join(new_frags(list, w.curr[i], next), frag_sep(i))
       IN  [w EXCEPT !.url = replaceState(w.url, frag_str),
                     !.hlen = replaceState_length(@)]

\* The position of the URL list update_frags writes (1-based), 0 when
\* set_frags is off.
write_idx(w, i) ==
  IF w.set_frags[i] = FALSE THEN 0
  ELSE LET list == frags(i, frag(w.url))
           idx  == IndexOf(list, w.curr[i])
       IN  IF idx = 0 THEN Len(list) + 1 ELSE idx

\* ------------------------------------------------------------------ open
\* The result of a call: the world it leaves, what it returns ("throw" for
\* an exception) and, for every instance, the URL list position the call
\* made it write (0 for none).
Res(w, ret, wr) == [w |-> w, ret |-> ret, wr |-> wr]

NoWrite == [j \in Inst |-> 0]

Wrote(i, idx) == [j \in Inst |-> IF j = i THEN idx ELSE 0]

\* Mutant of open_class: the test for the tab being active already is gone.
open_class_unguarded(w, i, id) ==
  IF ~Truthy(w.tabs[i], id) THEN Res(w, "undefined", NoWrite)
  ELSE LET w1 == IF Truthy(w.tabs[i], w.curr[i]) THEN hide(w, i, w.curr[i]) ELSE w
           w2 == show(w1, i, id)
           w3 == update_frags(w2, i, id)
       IN  Res([w3 EXCEPT !.curr[i] = id], "undefined", Wrote(i, write_idx(w2, i)))

\* open of the class implementation (src/tabs.js:511-519)
open_class(w, i, id) ==
  IF id = w.curr[i] THEN Res(w, "undefined", NoWrite)
  ELSE IF ~Truthy(w.tabs[i], id) THEN Res(w, "undefined", NoWrite)
  ELSE LET w1 == IF Truthy(w.tabs[i], w.curr[i]) THEN hide(w, i, w.curr[i]) ELSE w
           w2 == show(w1, i, id)
           w3 == update_frags(w2, i, id)
       IN  Res([w3 EXCEPT !.curr[i] = id], "undefined", Wrote(i, write_idx(w2, i)))

\* open of the prototype implementation (src/tabs.js:189-204)
open_legacy(w, i, id) ==
  IF id = w.curr[i] THEN Res(w, "undefined", NoWrite)
  ELSE IF ~Truthy(w.tabs[i], id) THEN Res(w, "undefined", NoWrite)
  ELSE IF ~Truthy(w.tabs[i], w.curr[i]) THEN Res(w, "undefined", NoWrite)
  ELSE IF show_throws("legacy", w, i, w.curr[i]) THEN Res(w, "throw", NoWrite)
  ELSE LET w1 == hide(w, i, w.curr[i])
       IN  IF show_throws("legacy", w1, i, id) THEN Res(w1, "throw", NoWrite)
           ELSE LET w2 == show(w1, i, id)
                    w3 == update_frags(w2, i, id)
                IN  Res([w3 EXCEPT !.curr[i] = id], "undefined", Wrote(i, write_idx(w2, i)))

open(im, w, i, id) ==
  IF im = "class" THEN open_class(w, i, id) ELSE open_legacy(w, i, id)

\* ------------------------------------------------------------- discovery
\* Mutant of find_tnav: the attribute value is not compared with the name.
find_tnav_any_value(w, i) ==
  IF w.tnav[i] # NoNav THEN w.tnav[i]
  ELSE LET match(n) == Navs[n] \notin w.claimed
       IN  IF \E n \in 1..Len(Navs) : match(n)
             THEN Navs[CHOOSE n \in 1..Len(Navs) :
                         match(n) /\ \A m \in 1..(n - 1) : ~match(m)]
             ELSE NoNav

\* find_tnav: this.tnav when already set, else the first container whose
\* attribute equals the selector value and which is not claimed, else null.
find_tnav(w, i) ==
  IF w.tnav[i] # NoNav THEN w.tnav[i]
  ELSE LET match(n) == NavValue[Navs[n]] = w.name[i] /\ Navs[n] \notin w.claimed
       IN  IF \E n \in 1..Len(Navs) : match(n)
             THEN Navs[CHOOSE n \in 1..Len(Navs) :
                         match(n) /\ \A m \in 1..(n - 1) : ~match(m)]
             ELSE NoNav

\* find_btns: no btn_select is configured, so the container's children.
find_btns(w, i) == Children[w.tnav[i]]

\* find_href: the href attribute of the button's first <a>.
find_href(b) == HrefAttr[b]

\* ------------------------------------------------------------------ init
\* Mutant of pick_curr: the first bound id found in the URL list is kept.
pick_curr_first_match(list, id, cur) ==
  IF cur = Null \/ (IndexOf(list, id) # 0 /\ IndexOf(list, cur) = 0)
    THEN id ELSE cur

\* Mutant of pick_curr: the URL list is not looked at.
pick_curr_no_url(list, id, cur) == IF cur = Null THEN id ELSE cur

\* The active id after binding id, with list the URL list and cur the
\* active id so far (src/tabs.js:423-426).
pick_curr(list, id, cur) ==
  IF IndexOf(list, id) # 0 \/ cur = Null THEN id ELSE cur

RECURSIVE bind(_, _, _, _, _, _)
\* The loop of init over btns[n..]; list is the URL list read before it.
bind(im, w, i, btns, list, n) ==
  IF n > Len(btns) THEN w
  ELSE LET btn  == btns[n]
           href == find_href(btn)
           id   == frag(href)
           tab  == getElementById(id)
       IN  IF href = <<>> \/ id = <<>> \/ tab = Undef
             THEN bind(im, w, i, btns, list, n + 1)
             ELSE LET c1 == add_class(w.cls, btn, btn_class(im, i))
                      c2 == add_class(c1, tab, tab_class(i))
                      w1 == [w EXCEPT
                               !.cls = c2,
                               !.lst[btn] = Append(@, i),
                               !.tabs[i] = (id :> [btn |-> btn, tab |-> tab]) @@ @,
                               !.curr[i] = pick_curr(list, id, @)]
                  IN  bind(im, w1, i, btns, list, n + 1)

init(im, w, i) ==
  LET w0 == [w EXCEPT !.tnav[i] = find_tnav(w, i)]
  IN  IF w0.tnav[i] = NoNav THEN Res(w0, "false", NoWrite)
      ELSE LET w1 == bind(im, w0, i, find_btns(w0, i), frags(i, frag(w0.url)), 1)
           IN  IF Keys(w1.tabs[i]) = {} THEN Res(w1, "false", NoWrite)
               ELSE LET w2 == hide_all(w1, i)
                        w3 == show(w2, i, w2.curr[i])
                        c4 == add_class(w3.cls, w3.tnav[i], nav_class(im, i))
                    IN  IF show_throws(im, w2, i, w2.curr[i])
                          THEN Res(w2, "throw", NoWrite)
                          ELSE Res([w3 EXCEPT !.cls = c4,
                                              !.claimed = @ \cup {w3.tnav[i]}],
                                   "true", NoWrite)

\* ------------------------------------------------------------------ kill
\* removeEventListener(t.evt): t.evt is the listener this instance
\* registered last on t.btn.
RemoveLast(seq, i) ==
  IF \E n \in 1..Len(seq) : seq[n] = i
    THEN LET n == CHOOSE n \in 1..Len(seq) :
                    seq[n] = i /\ \A m \in (n + 1)..Len(seq) : seq[m] # i
         IN  SubSeq(seq, 1, n - 1) \o SubSeq(seq, n + 1, Len(seq))
    ELSE seq

RECURSIVE unbind(_, _, _, _)
\* The loop of kill over the entries of this.tabs.
unbind(im, w, i, ids) ==
  IF ids = {} THEN w
  ELSE LET id == CHOOSE id \in ids : TRUE
           t  == w.tabs[i][id]
           c1 == rem_class(w.cls, t.tab, tab_class(i))
           c2 == rem_class(c1, t.tab, tab_active(i))
           c3 == rem_class(c2, t.tab, tab_hidden(i))
           c4 == rem_class(c3, t.btn, btn_class(im, i))
           c5 == rem_class(c4, t.btn, btn_active(i))
           w1 == [w EXCEPT !.cls = c5, !.lst[t.btn] = RemoveLast(@, i)]
       IN  unbind(im, w1, i, ids \ {id})

\* The loop of kill in the class implementation also visits the names
\* inherited from a prototype entry, after the own keys: this.tabs["btn"]
\* is an element, whose btn is undefined, so removeEventListener raises.
kill_throws(im, w, i) == im = "class" /\ SetterKey \in DOMAIN w.tabs[i]

kill(im, w, i) ==
  LET w1 == unbind(im, w, i, Keys(w.tabs[i]))
      w2 == [w1 EXCEPT !.tabs[i] = <<>>, !.curr[i] = Null]
  IN  IF kill_throws(im, w, i) THEN Res(w1, "throw", NoWrite)
      ELSE IF w2.tnav[i] = NoNav
        THEN Res(w2, "throw", NoWrite)   \* null.removeAttribute(...)
        ELSE Res([w2 EXCEPT
                    !.cls = rem_class(@, w2.tnav[i], nav_class(im, i)),
                    !.claimed = @ \ {w2.tnav[i]}],
                 "undefined", NoWrite)

\* ----------------------------------------------------------------- click
\* The result r of a listener, with whether it called preventDefault.
Ev(r, p) == [w |-> r.w, ret |-> r.ret, wr |-> r.wr, prevented |-> p]

\* Mutant of click: preventDefault is not called.
click_skips_prevent(im, w, i, b) ==
  LET href == find_href(b)
  IN  IF href = <<>> THEN Ev(Res(w, "undefined", NoWrite), FALSE)
      ELSE Ev(open(im, w, i, frag(href)), FALSE)

\* click(evt) of instance i for an event whose currentTarget is button b.
click(im, w, i, b) ==
  LET href == find_href(b)
  IN  IF href = <<>> THEN Ev(Res(w, "undefined", NoWrite), TRUE)
      ELSE Ev(open(im, w, i, frag(href)), TRUE)

RECURSIVE dispatch(_, _, _, _)
\* A click event on button b: its listeners run in registration order; an
\* exception in one listener does not keep the others from running.
dispatch(im, w, b, ls) ==
  IF ls = <<>> THEN Ev(Res(w, "undefined", NoWrite), FALSE)
  ELSE LET r1 == click(im, w, Head(ls), b)
           r2 == dispatch(im, r1.w, b, Tail(ls))
       IN  Ev(Res(r2.w,
                  IF r1.ret = "throw" THEN "throw" ELSE r2.ret,
                  [j \in Inst |-> IF r2.wr[j] # 0 THEN r2.wr[j] ELSE r1.wr[j]]),
              r1.prevented \/ r2.prevented)

\* The default action of a click on a link to href: the browser navigates
\* to the fragment, which adds a session history entry.
navigate(w, href) ==
  [w EXCEPT !.url = Split(w.url, Hash)[1] \o href, !.hlen = @ + 1]

\* A click event on button b from dispatch to default action: the default
\* action is taken unless a listener called preventDefault.
click_event(im, w, b) ==
  LET r == dispatch(im, w, b, w.lst[b])
  IN  IF r.prevented \/ find_href(b) = <<>> THEN r
      ELSE Ev(Res(navigate(r.w, find_href(b)), r.ret, r.wr), FALSE)

\* ------------------------------------------------------------- bootstrap
RECURSIVE bootstrap(_, _, _, _)
\* The page's set-up loop from the n-th matching container on: one new
\* instance per element carrying the attribute, initialized at once.  With
\* named the instance is given the element's attribute value as its name
\* (initTabs, the README loop); without, no option (index.html).
bootstrap(im, w, named, n) ==
  IF n > Len(Navs) THEN Res(w, "undefined", NoWrite)
  ELSE LET w0 == [w EXCEPT !.name[n] = IF named THEN NavValue[Navs[n]] ELSE "",
                           !.set_frags[n] = TRUE]
       IN  bootstrap(im, init(im, w0, n).w, named, n + 1)

\* ------------------------------------------------------------ the system
InitFrags ==
  { <<>>,
    <<Hash, "a", ":", "b">> }

\* The options the instances are constructed with: none, or each the
\* value of one of the containers of the "named" page.
InitNames ==
  { [i \in Inst |-> ""],
    [i \in Inst |-> IF i = 1 THEN "one" ELSE "two"],
    [i \in Inst |-> IF i = 1 THEN "two" ELSE "one"] }

\* The page is loaded at a URL with one of the fragments fs, and the
\* instances are constructed with the set_frags options sf.
InitWith(sf, fs) ==
  /\ impl \in Impls
  /\ page \in Pages
  /\ name \in InitNames
  /\ set_frags = sf
  /\ hlen = 1
  /\ url \in {BaseURL \o f : f \in fs}
  /\ claimed = {}
  /\ cls = [e \in Elements |-> {}]
  /\ lst = [b \in Buttons |-> <<>>]
  /\ tnav = [i \in Inst |-> NoNav]
  /\ tabs = [i \in Inst |-> <<>>]
  /\ curr = [i \in Inst |-> Null]
  /\ slot = NoWrite

Init == InitWith([i \in Inst |-> TRUE], InitFrags)

\* The ids open() is called with: every panel id, an inherited property
\* name and a string that names nothing.
OpenArgs == {ElemId[p] : p \in Panels} \cup ProtoKeys \cup {<<"zz">>}

\* The ids of the panels of all pages, with the other arguments of open().
AllArgs ==
  {<<"a">>, <<"b">>, <<"x", ":", "y">>, <<"c">>, <<"d">>, SetterKey}
    \cup ProtoKeys \cup {<<"zz">>}

WithinBounds(w) ==
  /\ Len(frags(1, frag(w.url))) <= MaxFrags
  /\ \A b \in Buttons : Len(w.lst[b]) <= MaxListeners
  /\ w.hlen <= MaxHist

\* A call with result r takes place; killed are the instances it killed.
Set(r, killed) ==
  /\ WithinBounds(r.w)
  /\ url' = r.w.url
  /\ claimed' = r.w.claimed
  /\ cls' = r.w.cls
  /\ lst' = r.w.lst
  /\ tnav' = r.w.tnav
  /\ tabs' = r.w.tabs
  /\ curr' = r.w.curr
  /\ name' = r.w.name
  /\ set_frags' = r.w.set_frags
  /\ hlen' = r.w.hlen
  /\ slot' = [j \in Inst |->
               IF j \in killed THEN 0
               ELSE IF slot[j] = 0 THEN r.wr[j] ELSE slot[j]]
  /\ UNCHANGED <<impl, page>>

CallInit(i) ==
  /\ i \in Inst
  /\ Set(init(impl, World, i), {})

CallOpen(i, id) ==
  /\ i \in Inst
  /\ id \in OpenArgs
  /\ Set(open(impl, World, i, id), {})

CallKill(i) ==
  /\ i \in Inst
  /\ Set(kill(impl, World, i),
         IF kill(impl, World, i).w.tabs[i] = <<>> THEN {i} ELSE {})

Click(b) ==
  /\ lst[b] # <<>>
  /\ Set(click_event(impl, World, b), {})

\* A newly constructed instance: nothing found, nothing bound, no active id.
Fresh(w, i) == w.tnav[i] = NoNav /\ w.tabs[i] = <<>> /\ w.curr[i] = Null

\* DOMContentLoaded: the set-up loop runs on instances it constructs.  The
\* prototype implementation ships the loop that passes names (initTabs).
Bootstrap(named) ==
  /\ \A i \in Inst : Fresh(World, i)
  /\ impl = "legacy" => named
  /\ Set(bootstrap(impl, World, named, 1), {})

Next ==
  \/ \E i \in Inst : CallInit(i)
  \/ \E i \in Inst, id \in AllArgs : CallOpen(i, id)
  \/ \E i \in Inst : CallKill(i)
  \/ \E b \in Buttons : Click(b)
  \/ \E named \in BOOLEAN : Bootstrap(named)

Spec == Init /\ [][Next]_vars

\* The page of the first part of this development: one implementation,
\* two bare containers, instances constructed without options.
Plain ==
  /\ page = "generic"
  /\ name = [i \in Inst |-> ""]
  /\ set_frags = [i \in Inst |-> TRUE]

InitClass == Init /\ impl = "class" /\ Plain

InitLegacy == Init /\ impl = "legacy" /\ Plain

SpecClass == InitClass /\ [][Next]_vars

SpecLegacy == InitLegacy /\ [][Next]_vars

\* The class implementation on the same page with fragment synchronization
\* switched off for instance 1.
InitNoSync ==
  /\ InitWith([i \in Inst |-> i # 1], InitFrags)
  /\ impl = "class" /\ page = "generic" /\ name = [i \in Inst |-> ""]

SpecNoSync == InitNoSync /\ [][Next]_vars

\* ================================================================ claims
\* init() has returned true and kill() has not been called since: init
\* leaves entries in this.tabs exactly when it returns true, kill empties it.
Initialized(i) == Keys(tabs[i]) # {}

BoundPanels(i) == {tabs[i][k].tab : k \in DOMAIN tabs[i]}

\* C1: between a successful init() and the next kill(), exactly one bound
\* panel of a TabSet carries the active-panel class and every other bound
\* panel carries the hidden-panel class.
C1_ExactlyOneActive ==
  \A i \in Inst :
    Initialized(i) =>
      \E p \in BoundPanels(i) :
        /\ tab_active(i) \in cls[p]
        /\ \A q \in BoundPanels(i) \ {p} :
             tab_active(i) \notin cls[q] /\ tab_hidden(i) \in cls[q]

\* C2: whenever entries is non-empty and init() has returned true, the
\* active key (curr) is a key of entries.
C2_CurrIsKey ==
  \A i \in Inst : Initialized(i) => curr[i] \in DOMAIN tabs[i]

\* C3: immediately after init() returns true, the panel of the active key
\* carries the active-panel class and every other bound panel carries the
\* hidden-panel class and not the active-panel class.
C3_InitShowsOne ==
  \A i \in Inst :
    LET r == init(impl, World, i)
        t == r.w.tabs[i]
        c == r.w.curr[i]
    IN  r.ret = "true" =>
          /\ c \in DOMAIN t
          /\ tab_active(i) \in r.w.cls[t[c].tab]
          /\ \A k \in DOMAIN t \ {c} :
               /\ tab_active(i) \notin r.w.cls[t[k].tab]
               /\ tab_hidden(i) \in r.w.cls[t[k].tab]

\* C4: open(k), with k a bound key other than the active key of an
\* initialized TabSet, takes the active classes from the previously active
\* entry and gives its panel the hidden class, gives entry k the active
\* classes and takes the hidden class from its panel, makes k the active
\* key, and leaves the classes of every other bound entry as they were.
C4_OpenSwitches ==
  \A i \in Inst : \A k \in DOMAIN tabs[i] \ {curr[i]} :
    LET r    == open(impl, World, i, k)
        t    == tabs[i][k]
        rest == DOMAIN tabs[i] \ {k, curr[i]}
    IN  /\ r.ret = "undefined"
        /\ r.w.curr[i] = k
        /\ btn_active(i) \in r.w.cls[t.btn]
        /\ tab_active(i) \in r.w.cls[t.tab]
        /\ tab_hidden(i) \notin r.w.cls[t.tab]
        /\ curr[i] \in DOMAIN tabs[i] =>
             LET c == tabs[i][curr[i]]
             IN  /\ btn_active(i) \notin r.w.cls[c.btn]
                 /\ tab_active(i) \notin r.w.cls[c.tab]
                 /\ tab_hidden(i) \in r.w.cls[c.tab]
        /\ \A o \in rest :
             /\ r.w.cls[tabs[i][o].btn] = cls[tabs[i][o].btn]
             /\ r.w.cls[tabs[i][o].tab] = cls[tabs[i][o].tab]

\* C4 witness: instance 1, bound to three entries and started on "a" with
\* an empty fragment, has been switched to "b": "b" is active, "a" hidden
\* and the URL list holds "b"; a further switch can be made from here.
C4_Witness ==
  /\ Cardinality(DOMAIN tabs[1]) = 3
  /\ curr[1] = <<"b">>
  /\ url = BaseURL \o <<Hash, "b">>
  /\ tab_active(1) \in cls["pb"] /\ tab_hidden(1) \notin cls["pb"]
  /\ tab_hidden(1) \in cls["pa"] /\ tab_active(1) \notin cls["pa"]
  /\ btn_active(1) \in cls["b2"] /\ btn_active(1) \notin cls["b1"]
  /\ open(impl, World, 1, <<"a">>).w.curr[1] = <<"a">>

\* C5: open(k) with k not a key bound by the TabSet changes nothing, for
\* every string k and in every state of the instance.
C5_OpenUnboundNoop ==
  \A i \in Inst : \A k \in OpenArgs \ DOMAIN tabs[i] :
    open(impl, World, i, k).w = World

\* C6: open(k) called while the TabSet has no valid active key (curr is
\* null or not a key of entries) changes nothing and raises no error.
C6_OpenNoCurrNoop ==
  \A i \in Inst : \A k \in OpenArgs :
    curr[i] \notin DOMAIN tabs[i] =>
      /\ open(impl, World, i, k).w = World
      /\ open(impl, World, i, k).ret # "throw"

\* C7: open(k) with k the active key changes nothing (no class, not the
\* URL, not the active key), and a second open(k) right after any open(k)
\* leaves the state the first one left.
C7_OpenCurrNoop ==
  \A i \in Inst : \A k \in OpenArgs :
    LET r == open(impl, World, i, k)
    IN  /\ k = curr[i] => r.w = World /\ r.ret = "undefined" /\ r.wr = NoWrite
        /\ open(impl, r.w, i, k).w = r.w

\* C7 witness: an initialized TabSet that has been switched to "b" is
\* asked to open "b" again, and the call leaves every variable as it was.
C7_Witness ==
  /\ Initialized(1)
  /\ curr[1] = <<"b">>
  /\ url = BaseURL \o <<Hash, "b">>
  /\ open(impl, World, 1, curr[1]).w = World
  /\ ENABLED CallOpen(1, curr[1])

\* C8: update_frags on a transition from the active key to a new key: when
\* the active key occurs in the decoded URL list, the new decoded list is
\* the old one with that position overwritten by the new key (same length,
\* same order); when it does not occur, the new list is the old one with
\* the new key appended.  Fragment "a:b" with "a" active and "c" opened
\* gives "c:b".
C8_OverwriteOrAppend ==
  /\ \A i \in Inst : \A next \in OpenArgs :
       (Truthy(tabs[i], next) /\ next # curr[i]) =>
         LET old == frags(i, frag(url))
             new == frags(i, frag(update_frags(World, i, next).url))
             idx == IndexOf(old, curr[i])
         IN  IF idx # 0 THEN new = [old EXCEPT ![idx] = next]
                        ELSE new = Append(old, next)
  /\ Join(new_frags(frags(1, <<"a", ":", "b">>), <<"a">>, <<"c">>), ":")
       = <<"c", ":", "b">>

\* C9: with several initialized TabSets sharing the URL fragment, a
\* transition of one instance changes only the list position holding its
\* previously active key, or appends one position; the position holding
\* another instance's active key keeps its index and its value.
C9_OthersUntouched ==
  \A i \in Inst : \A j \in Inst \ {i} : \A k \in OpenArgs :
    (Initialized(i) /\ Initialized(j)) =>
      LET r    == open(impl, World, i, k)
          old  == frags(i, frag(url))
          new  == frags(i, frag(r.w.url))
          mine == r.wr[i]
          pj   == IndexOf(old, curr[j])
      IN  mine # 0 =>
            /\ Len(new) = (IF mine > Len(old) THEN Len(old) + 1 ELSE Len(old))
            /\ \A p \in 1..Len(old) : p # mine => new[p] = old[p]
            /\ pj # 0 => pj # mine

\* C10: an initialized TabSet owns one position of the URL list: every
\* write it makes lands on the position of its first write.
C10_OneSlot ==
  \A i \in Inst : \A k \in OpenArgs :
    (Initialized(i) /\ slot[i] # 0 /\ open(impl, World, i, k).wr[i] # 0) =>
      open(impl, World, i, k).wr[i] = slot[i]

\* The page loaded again at the present URL: the document as served, and
\* one new instance set up per container by the page's loop.
Reloaded ==
  bootstrap(impl,
            [World EXCEPT !.claimed = {},
                          !.cls = [e \in Elements |-> {}],
                          !.lst = [b \in Buttons |-> <<>>],
                          !.tnav = [i \in Inst |-> NoNav],
                          !.tabs = [i \in Inst |-> <<>>],
                          !.curr = [i \in Inst |-> Null]],
            FALSE, 1).w

\* C11: the URL fragment preserves the opened tabs: when every container of
\* the page is bound by its own initialized TabSet, loading the page again
\* at the present URL gives every container a TabSet with the active key
\* the container's TabSet has now.
C11_ReloadKeeps ==
  ((\A i \in Inst : Initialized(i)) /\ tnav[1] # tnav[2]) =>
    \A i \in Inst : \E j \in Inst :
      /\ Reloaded.tnav[j] = tnav[i]
      /\ Reloaded.curr[j] = curr[i]

\* The key a button stands for: the fragment of its href.
key(b) == frag(find_href(b))

\* The positions, among the buttons init() of instance i walks in world w,
\* of the bound buttons whose key occurs in the decoded URL list.
UrlHits(w, i) ==
  LET btns == find_btns(w, i)
  IN  {n \in 1..Len(btns) :
         /\ key(btns[n]) \in DOMAIN w.tabs[i]
         /\ IndexOf(frags(i, frag(w.url)), key(btns[n])) # 0}

\* The positions of the bound buttons among those init() walks.
BoundPos(w, i) ==
  LET btns == find_btns(w, i)
  IN  {n \in 1..Len(btns) : key(btns[n]) \in DOMAIN w.tabs[i]}

\* C12: when the decoded URL list holds the keys of two or more entries
\* init() binds, init() makes the key of the entry bound last in button
\* order the active key, whatever the order of the keys in the URL list.
C12_LastMatchWins ==
  \A i \in Inst :
    LET r    == init(impl, World, i)
        hits == UrlHits(r.w, i)
        last == CHOOSE n \in hits : \A m \in hits : m <= n
    IN  (r.ret = "true" /\ Cardinality(hits) >= 2) =>
          r.w.curr[i] = key(find_btns(r.w, i)[last])

\* C12 witness: the URL list is "b:a", the keys of the first two buttons in
\* reverse order, and init() of instance 1 (no URL write since) has made
\* "b", the key bound later, the active key.
C12_Witness ==
  /\ frag(url) = <<"b", ":", "a">>
  /\ Initialized(1) /\ tnav[1] = "n1"
  /\ slot[1] = 0
  /\ curr[1] = <<"b">>
  /\ Cardinality(UrlHits(World, 1)) = 2

\* C13: init() of a TabSet that is newly constructed or killed (no active
\* key, nothing bound): when no key it binds occurs in the decoded URL
\* list the first bound entry in button order becomes the active key, and
\* when exactly one occurs that key becomes the active key.
C13_FirstOrOnly ==
  \A i \in Inst :
    LET r     == init(impl, World, i)
        hits  == UrlHits(r.w, i)
        bound == BoundPos(r.w, i)
        first == CHOOSE n \in bound : \A m \in bound : n <= m
        only  == CHOOSE n \in hits : TRUE
    IN  (curr[i] = Null /\ tabs[i] = <<>> /\ r.ret = "true") =>
          /\ hits = {} => r.w.curr[i] = key(find_btns(r.w, i)[first])
          /\ Cardinality(hits) = 1 => r.w.curr[i] = key(find_btns(r.w, i)[only])

\* C13 witness: the URL list is "b", the key of the second button alone,
\* and init() of instance 1 (no URL write since) has made it the active key.
C13_Witness ==
  /\ frag(url) = <<"b">>
  /\ Initialized(1) /\ tnav[1] = "n1"
  /\ slot[1] = 0
  /\ curr[1] = <<"b">>
  /\ UrlHits(World, 1) = {2}

\* C14: init() never binds an instance to a container that carries the
\* claimed marker, and no container is bound by two initialized TabSets.
C14_OneTabSetPerNav ==
  /\ \A i \in Inst : \A j \in Inst \ {i} :
       (Initialized(i) /\ Initialized(j)) => tnav[i] # tnav[j]
  /\ \A i \in Inst :
       LET r == init(impl, World, i)
       IN  (~Initialized(i) /\ r.ret = "true") => r.w.tnav[i] \notin claimed

\* A container with at least one button init() can bind: the button has a
\* link whose fragment is the id of an element.
Resolvable(n) ==
  \E k \in 1..Len(Children[n]) :
    LET href == find_href(Children[n][k])
    IN  href # <<>> /\ frag(href) # <<>> /\ getElementById(frag(href)) # Undef

\* C15: when the page's set-up loop has run (one new instance initialized
\* per element carrying the attribute), every such container with at least
\* one resolvable button carries the claimed marker, on every page.
C15_BootstrapClaimsAll ==
  \A named \in BOOLEAN :
    ((\A i \in Inst : Fresh(World, i)) /\ (impl = "legacy" => named)) =>
      \A n \in DOMAIN Children :
        Resolvable(n) => n \in bootstrap(impl, World, named, 1).w.claimed

\* The first container in document order among the positions in cand.
FirstNav(cand) ==
  IF cand = {} THEN NoNav
  ELSE Navs[CHOOSE n \in cand : \A m \in cand : n <= m]

\* C16: the look-up of an instance that holds no navigation element yet:
\* without a name it takes the first unclaimed container carrying the
\* attribute, whatever the attribute's value; with a name it takes the
\* first unclaimed container whose attribute value equals the name.
C16_NameFilter ==
  \A i \in Inst :
    tnav[i] = NoNav =>
      find_tnav(World, i) =
        FirstNav({n \in 1..Len(Navs) :
                    /\ Navs[n] \notin claimed
                    /\ name[i] # "" => NavValue[Navs[n]] = name[i]})

\* The container whose attribute value is v.
NavOf(v) == CHOOSE n \in DOMAIN NavValue : NavValue[n] = v

\* C17: two containers with the values "one" and "two" and two TabSets
\* each named after one of them: every init() call returns true, binds the
\* container whose value is the instance's name and sets the claimed
\* marker on that container and no other, in whatever state (hence
\* order) the call is made.
C17_NamedClaims ==
  (page = "named" /\ name[1] # "" /\ name[2] # "" /\ name[1] # name[2]) =>
    \A i \in Inst :
      LET r == init(impl, World, i)
      IN  /\ r.ret = "true"
          /\ r.w.tnav[i] = NavOf(name[i])
          /\ r.w.claimed = claimed \cup {NavOf(name[i])}

\* C17 witness: instance 1, named "two", was initialized first: it holds
\* the second container, which alone carries the claimed marker, while the
\* first container is still free for instance 2, named "one".
C17_Witness ==
  /\ page = "named"
  /\ name[1] = "two" /\ name[2] = "one"
  /\ Initialized(1) /\ tnav[1] = "n2"
  /\ tnav[2] = NoNav
  /\ claimed = {"n2"}

\* C18: kill() followed by init() on an initialized instance gives the
\* entries table it had (same keys, buttons and panels), the same
\* navigation element, carrying the claimed marker, and a working tab-set:
\* open(k) of every bound key switches to it, and a click on every bound
\* button makes that button's key the active key.  Made right after a first
\* init(), the pair of calls leaves the page and the instance exactly as
\* that init() left them.
C18_KillInitRestores ==
  \A i \in Inst :
   /\ LET r1 == init(impl, World, i)
           r2 == init(impl, kill(impl, r1.w, i).w, i)
       IN  (curr[i] = Null /\ tabs[i] = <<>> /\ r1.ret = "true") =>
             r2.ret = "true" /\ r2.w = r1.w
   /\ Initialized(i) =>
      LET k == kill(impl, World, i)
          r == init(impl, k.w, i)
      IN  /\ k.ret = "undefined"
          /\ r.ret = "true"
          /\ r.w.tabs[i] = tabs[i]
          /\ r.w.tnav[i] = tnav[i]
          /\ tnav[i] \in r.w.claimed
          /\ r.w.curr[i] \in DOMAIN tabs[i]
          /\ \A id \in DOMAIN tabs[i] :
               LET o == open(impl, r.w, i, id)
                   c == dispatch(impl, r.w, tabs[i][id].btn,
                                 r.w.lst[tabs[i][id].btn])
               IN  /\ o.ret = "undefined"
                   /\ o.w.curr[i] = id
                   /\ tab_active(i) \in o.w.cls[tabs[i][id].tab]
                   /\ tab_hidden(i) \notin o.w.cls[tabs[i][id].tab]
                   /\ \E n \in 1..Len(r.w.lst[tabs[i][id].btn]) :
                        r.w.lst[tabs[i][id].btn][n] = i
                   /\ c.ret = "undefined"
                   /\ c.w.curr[i] = id
                   /\ tab_active(i) \in c.w.cls[tabs[i][id].tab]

\* C19: kill() on an initialized TabSet leaves entries empty and the active
\* key null, takes the claimed marker from its navigation element, leaves
\* no formerly bound panel with the base, active or hidden panel class and
\* no formerly bound button with the base or active button class, and
\* keeps the options and the reference to the navigation element.
C19_KillCleans ==
  \A i \in Inst :
    Initialized(i) =>
      LET r == kill(impl, World, i)
      IN  /\ r.ret = "undefined"
          /\ r.w.tabs[i] = <<>>
          /\ r.w.curr[i] = Null
          /\ tnav[i] \notin r.w.claimed
          /\ \A id \in DOMAIN tabs[i] :
               /\ r.w.cls[tabs[i][id].tab]
                    \cap {tab_class(i), tab_active(i), tab_hidden(i)} = {}
               /\ r.w.cls[tabs[i][id].btn]
                    \cap {btn_class(impl, i), btn_active(i)} = {}
          /\ r.w.tnav[i] = tnav[i]
          /\ r.w.name = name

\* The number of click listeners of instance i on button b.
Listeners(l, i, b) == Cardinality({n \in 1..Len(l[b]) : l[b][n] = i})

\* C20: a TabSet never has more than one click listener on a button, and
\* kill() leaves none of its listeners on any button, whatever init()
\* calls came before.
C20_OneListener ==
  \A i \in Inst : \A b \in Buttons :
    /\ Listeners(lst, i, b) <= 1
    /\ Listeners(kill(impl, World, i).w.lst, i, b) = 0

\* Instance i has a click listener on button b.
Listens(i, b) == \E n \in 1..Len(lst[b]) : lst[b][n] = i

\* C21: the click listener of a TabSet always calls preventDefault and
\* leaves the state open(key) leaves from the same state, key being the
\* fragment of the button's href; for a button without a resolvable href
\* it changes nothing.  A click event on a button that has this one
\* listener ends in that state too, with no navigation.
C21_ClickIsOpen ==
  \A i \in Inst : \A b \in Buttons :
    LET c == click(impl, World, i, b)
        o == open(impl, World, i, key(b))
        e == click_event(impl, World, b)
    IN  /\ c.prevented
        /\ find_href(b) # <<>> => (c.w = o.w /\ c.ret = o.ret)
        /\ find_href(b) = <<>> => (c.w = World /\ c.ret = "undefined")
        /\ lst[b] = <<i>> => (e.w = o.w /\ e.ret = o.ret /\ e.prevented)

\* C21 witness: instance 1 shows "a" and has the one listener on the
\* button of "b"; a click on that button is possible and switches to "b".
C21_Witness ==
  /\ Initialized(1) /\ curr[1] = <<"a">>
  /\ lst["b2"] = <<1>>
  /\ key("b2") = <<"b">>
  /\ WithinBounds(click_event(impl, World, "b2").w)
  /\ click_event(impl, World, "b2").w.curr[1] = <<"b">>
  /\ click_event(impl, World, "b2").w = open(impl, World, 1, <<"b">>).w
  /\ click_event(impl, World, "b2").w # World

\* C22: no init(), open(), click or kill() of a TabSet constructed with
\* set_frags false changes the URL (or the session history), and its
\* open(k) of a bound key other than the active one still moves the
\* active classes to entry k, unhides its panel and makes k the active key.
C22_NoSyncNoUrl ==
  \A i \in Inst :
    set_frags[i] = FALSE =>
      /\ init(impl, World, i).w.url = url
      /\ kill(impl, World, i).w.url = url
      /\ \A k \in OpenArgs :
           LET o == open(impl, World, i, k)
           IN  o.w.url = url /\ o.w.hlen = hlen /\ o.wr = NoWrite
      /\ \A b \in Buttons :
           /\ click(impl, World, i, b).w.url = url
           /\ lst[b] = <<i>> => click_event(impl, World, b).w.url = url
      /\ \A k \in DOMAIN tabs[i] \ {curr[i]} :
           LET o == open(impl, World, i, k)
           IN  /\ o.w.curr[i] = k
               /\ btn_active(i) \in o.w.cls[tabs[i][k].btn]
               /\ tab_active(i) \in o.w.cls[tabs[i][k].tab]
               /\ tab_hidden(i) \notin o.w.cls[tabs[i][k].tab]
               /\ curr[i] \in DOMAIN tabs[i] =>
                    /\ tab_active(i) \notin o.w.cls[tabs[i][curr[i]].tab]
                    /\ tab_hidden(i) \in o.w.cls[tabs[i][curr[i]].tab]

\* C22 witness: instance 1, constructed with set_frags false and
\* initialized on an empty fragment, has been switched from "a" to "b":
\* the classes and the active key say "b", the URL has no fragment still.
C22_Witness ==
  /\ set_frags[1] = FALSE
  /\ Initialized(1) /\ tnav[1] = "n1"
  /\ curr[1] = <<"b">>
  /\ url = BaseURL
  /\ tab_active(1) \in cls["pb"] /\ tab_hidden(1) \notin cls["pb"]
  /\ tab_hidden(1) \in cls["pa"] /\ tab_active(1) \notin cls["pa"]

\* C23: init() never raises; it returns false when no unclaimed container
\* matches and when the container found has no button that binds; and an
\* init() that returns false marks no container, adds no class and no
\* listener, and leaves entries empty and the active key as it was (none):
\* it changes nothing but the instance's reference to the container found.
C23_InitFailsClean ==
  \A i \in Inst :
    LET r   == init(impl, World, i)
        nav == find_tnav(World, i)
    IN  /\ r.ret \in {"true", "false"}
        /\ nav = NoNav => r.ret = "false"
        /\ (nav # NoNav /\ ~Resolvable(nav) /\ tabs[i] = <<>>) => r.ret = "false"
        /\ r.ret = "false" =>
             /\ r.w = [World EXCEPT !.tnav[i] = nav]
             /\ r.w.claimed = claimed /\ r.w.cls = cls /\ r.w.lst = lst
             /\ r.w.tabs[i] = <<>>
             /\ r.w.curr[i] = curr[i]
             /\ curr[i] = Null => r.w.curr[i] = Null

\* C24: a transition that rewrites the URL fragment replaces the current
\* history entry: the session history has the one entry of the page load
\* after every sequence of calls and clicks, and no open() and no click on
\* a button with listeners changes the number of entries.
C24_HistoryInPlace ==
  /\ hlen = 1
  /\ \A i \in Inst : \A k \in OpenArgs :
       open(impl, World, i, k).w.hlen = hlen
  /\ \A b \in Buttons :
       lst[b] # <<>> => click_event(impl, World, b).w.hlen = hlen

\* C24 witness: both TabSets have rewritten the fragment, which now reads
\* "b:d", and the session history still has its one entry.
C24_Witness ==
  /\ frag(url) = <<"b", ":", "d">>
  /\ slot[1] # 0 /\ slot[2] # 0
  /\ curr[1] = <<"b">> /\ curr[2] = <<"d">>
  /\ hlen = 1

\* The candidate buttons of container n: its children, in a set.
Candidates(n) == {Children[n][k] : k \in 1..Len(Children[n])}

\* The candidates of container n that meet the three conditions: a link
\* with an href, a non-empty fragment in it, an element with that id.
Bindable(n) ==
  {b \in Candidates(n) :
     /\ HrefAttr[b] # <<>>
     /\ frag(HrefAttr[b]) # <<>>
     /\ \E p \in Panels : ElemId[p] = frag(HrefAttr[b])}

\* C25: a successful init() of an instance with nothing bound leaves as
\* keys of entries exactly the fragments of the candidates that have an
\* href with a non-empty fragment naming an element of the document, each
\* mapped to its button and that element, with one listener added to the
\* button; every other candidate gets no listener and no class.
C25_BindsResolvable ==
  \A i \in Inst :
    LET r == init(impl, World, i)
        n == r.w.tnav[i]
    IN  (curr[i] = Null /\ tabs[i] = <<>> /\ r.ret = "true") =>
          /\ Keys(r.w.tabs[i]) = {frag(HrefAttr[b]) : b \in Bindable(n)}
          /\ \A b \in Bindable(n) :
               /\ r.w.tabs[i][frag(HrefAttr[b])].btn = b
               /\ ElemId[r.w.tabs[i][frag(HrefAttr[b])].tab] = frag(HrefAttr[b])
               /\ r.w.lst[b] = Append(lst[b], i)
          /\ \A b \in Candidates(n) \ Bindable(n) :
               r.w.lst[b] = lst[b] /\ r.w.cls[b] = cls[b]

\* The page with two bare containers, loaded at a URL whose fragment lists
\* at most one key of each container, with fragment synchronization on.
OneKeyFrags ==
  { <<>>,
    <<Hash, "b">>,
    <<Hash, "d">>,
    <<Hash, "b", ":", "d">> }

InitOneKey ==
  /\ InitWith([i \in Inst |-> TRUE], OneKeyFrags)
  /\ page = "generic" /\ name = [i \in Inst |-> ""]

SpecOneKey == InitOneKey /\ [][Next]_vars

\* The number of positions of the list that hold id.
Count(list, id) == Cardinality({n \in 1..Len(list) : list[n] = id})

\* C26: with synchronization on, TabSets on different containers with
\* disjoint key sets and an initial fragment listing at most one key of
\* each, the decoded fragment of the URL holds, for every TabSet that has
\* made a transition, its active key exactly once and none of its other
\* keys.
C26_UrlListsActive ==
  (tnav[1] # tnav[2] /\ Keys(tabs[1]) \cap Keys(tabs[2]) = {}) =>
    \A i \in Inst :
      (Initialized(i) /\ slot[i] # 0) =>
        LET list == frags(i, frag(url))
        IN  /\ Count(list, curr[i]) = 1
            /\ \A k \in Keys(tabs[i]) \ {curr[i]} : Count(list, k) = 0

====
